---- MODULE Spec2Model ----
(***************************************************************************)
(* Model of the MySQL session store (sqlx-store/src/mysql_store.rs).       *)
(*                                                                         *)
(* The store holds no mutable state of its own: the state is the database  *)
(* behind the pool (schema, table, rows) and the two clocks the code       *)
(* reads: the application clock (OffsetDateTime::now_utc, bound by load)   *)
(* and the database clock (utc_timestamp(), read by delete_expired).       *)
(* Every store method issues one statement (migrate: one transaction of    *)
(* two), so each method is one action.                                     *)
(*                                                                         *)
(* Engine semantics the statements rely on:                                *)
(*  - a statement against a missing table fails;                           *)
(*  - the primary key on id admits one row per id, and "on duplicate key   *)
(*    update" rewrites the listed columns of the existing row;             *)
(*  - MySQL commits DDL implicitly, so a rollback undoes no create;        *)
(*  - time is counted in units of the column's resolution, timestamp(6),   *)
(*    and identifiers compare exactly.                                     *)
(***************************************************************************)
EXTENDS Integers, FiniteSets, Sequences, TLC

\* ---- bounds ------------------------------------------------------------
MaxTime == 3
MaxSkew == 2

Times == 0..MaxTime
Ids == {1, 2}
Payloads == {"p1", "p2"}
Unencodable == {"px"}

\* ---- records, ids and the codec ----------------------------------------
\* The records callers save.  Whether a record encodes depends on its data
\* alone, so the unencodable ones are taken with a single expiry_date.
Records ==
  [id : Ids, data : Payloads, expiry_date : Times]
    \cup [id : Ids, data : Unencodable, expiry_date : {0}]

NoRecord == [id |-> 0, data |-> "", expiry_date |-> -1]

\* Id::to_string(): the 22-character text the id column holds.
IdStrings == <<"AQAAAAAAAAAAAAAAAAAAAA", "AgAAAAAAAAAAAAAAAAAAAA">>

IdToString(id) == IdStrings[id]

\* Mutant of Encode: the serialised record loses its expiry_date.
EncodeDropsExpiry(r) ==
  IF r.data \in Unencodable THEN <<>>
  ELSE <<r.id, r.data, 0>>

\* rmp_serde::to_vec(&record): the whole record (id, data, expiry_date) is
\* serialised into the blob; <<>> stands for an encode error.
Encode(r) ==
  IF r.data \in Unencodable THEN <<>>
  ELSE <<r.id, r.data, r.expiry_date>>

EncodeFails(r) == Encode(r) = <<>>

\* Blobs that are not the serialisation of a record.
CorruptBlobs == {<<0>>}

\* rmp_serde::from_slice(&data): NoRecord stands for a decode error.
Decode(b) ==
  IF Len(b) = 3 THEN [id |-> b[1], data |-> b[2], expiry_date |-> b[3]]
  ELSE NoRecord

\* ---- the database ------------------------------------------------------
Row(id, data, expiry) == [id |-> id, data |-> data, expiry_date |-> expiry]

EmptyDb == [schema |-> FALSE, table |-> FALSE, rows |-> {}]

RowsOf(d, id) == {r \in d.rows : r.id = id}

\* create schema if not exists {schema_name}
CreateSchema(d) == [ok |-> TRUE, db |-> [d EXCEPT !.schema = TRUE]]

\* Mutant of CreateTable: "create table" without "if not exists".
CreateTableStrict(d) ==
  IF d.schema /\ ~d.table THEN [ok |-> TRUE, db |-> [d EXCEPT !.table = TRUE]]
  ELSE [ok |-> FALSE, db |-> d]

\* create table if not exists `{schema_name}`.`{table_name}` (...)
CreateTable(d) ==
  IF d.schema THEN [ok |-> TRUE, db |-> [d EXCEPT !.table = TRUE]]
  ELSE [ok |-> FALSE, db |-> d]

\* Dropping an uncommitted transaction rolls it back.  Both statements of
\* migrate are DDL, which MySQL commits implicitly: nothing is undone.
Rollback(atBegin, cur) == cur

\* Mutant of Upsert: on a duplicate key only data is rewritten.
UpsertDataOnly(d, id, data, expiry) ==
  IF ~d.table THEN [ok |-> FALSE, db |-> d]
  ELSE IF RowsOf(d, id) # {}
    THEN [ok |-> TRUE,
          db |-> [d EXCEPT !.rows =
                   {IF r.id = id THEN [r EXCEPT !.data = data] ELSE r
                      : r \in d.rows}]]
    ELSE [ok |-> TRUE,
          db |-> [d EXCEPT !.rows = d.rows \cup {Row(id, data, expiry)}]]

\* Mutant of Upsert: on a duplicate key only expiry_date is rewritten.
UpsertExpiryOnly(d, id, data, expiry) ==
  IF ~d.table THEN [ok |-> FALSE, db |-> d]
  ELSE IF RowsOf(d, id) # {}
    THEN [ok |-> TRUE,
          db |-> [d EXCEPT !.rows =
                   {IF r.id = id THEN [r EXCEPT !.expiry_date = expiry] ELSE r
                      : r \in d.rows}]]
    ELSE [ok |-> TRUE,
          db |-> [d EXCEPT !.rows = d.rows \cup {Row(id, data, expiry)}]]

\* Mutant of Upsert: "insert ignore", a duplicate key keeps the old row.
UpsertIgnore(d, id, data, expiry) ==
  IF ~d.table THEN [ok |-> FALSE, db |-> d]
  ELSE IF RowsOf(d, id) # {} THEN [ok |-> TRUE, db |-> d]
  ELSE [ok |-> TRUE,
        db |-> [d EXCEPT !.rows = d.rows \cup {Row(id, data, expiry)}]]

\* insert ... values (?, ?, ?) on duplicate key update data = values(data),
\* expiry_date = values(expiry_date)
Upsert(d, id, data, expiry) ==
  IF ~d.table THEN [ok |-> FALSE, db |-> d]
  ELSE IF RowsOf(d, id) # {}
    THEN [ok |-> TRUE,
          db |-> [d EXCEPT !.rows =
                   {IF r.id = id
                      THEN [r EXCEPT !.data = data, !.expiry_date = expiry]
                      ELSE r : r \in d.rows}]]
    ELSE [ok |-> TRUE,
          db |-> [d EXCEPT !.rows = d.rows \cup {Row(id, data, expiry)}]]

\* Mutant of SelectData: the predicate is expiry_date >= ?.
SelectDataGe(d, id, t) ==
  IF ~d.table THEN [ok |-> FALSE, out |-> {}]
  ELSE [ok |-> TRUE,
        out |-> {r.data : r \in {x \in d.rows : x.id = id /\ x.expiry_date >= t}}]

\* Mutant of SelectData: the predicate is id = ? alone.
SelectDataAnyExpiry(d, id, t) ==
  IF ~d.table THEN [ok |-> FALSE, out |-> {}]
  ELSE [ok |-> TRUE, out |-> {r.data : r \in {x \in d.rows : x.id = id}}]

\* Mutant of SelectData: a missing table reads as an empty one.
SelectDataLenient(d, id, t) ==
  IF ~d.table THEN [ok |-> TRUE, out |-> {}]
  ELSE [ok |-> TRUE,
        out |-> {r.data : r \in {x \in d.rows : x.id = id /\ x.expiry_date > t}}]

\* select data from ... where id = ? and expiry_date > ?
SelectData(d, id, t) ==
  IF ~d.table THEN [ok |-> FALSE, out |-> {}]
  ELSE [ok |-> TRUE,
        out |-> {r.data : r \in {x \in d.rows : x.id = id /\ x.expiry_date > t}}]

\* Mutant of DeleteById: the where clause is missing.
DeleteByIdAll(d, id) ==
  IF ~d.table THEN [ok |-> FALSE, db |-> d]
  ELSE [ok |-> TRUE, db |-> [d EXCEPT !.rows = {}]]

\* delete from ... where id = ?
DeleteById(d, id) ==
  IF ~d.table THEN [ok |-> FALSE, db |-> d]
  ELSE [ok |-> TRUE, db |-> [d EXCEPT !.rows = {r \in d.rows : r.id # id}]]

\* Mutant of DeleteWhereExpired: the comparison is reversed.
DeleteWhereUnexpired(d, t) ==
  IF ~d.table THEN [ok |-> FALSE, db |-> d]
  ELSE [ok |-> TRUE,
        db |-> [d EXCEPT !.rows = {r \in d.rows : ~(r.expiry_date > t)}]]

\* Mutant of DeleteWhereExpired: expiry_date is compared with the zero
\* timestamp instead of utc_timestamp().
DeleteWhereBeforeEpoch(d, t) ==
  IF ~d.table THEN [ok |-> FALSE, db |-> d]
  ELSE [ok |-> TRUE,
        db |-> [d EXCEPT !.rows = {r \in d.rows : ~(r.expiry_date < 0)}]]

\* delete from ... where expiry_date < utc_timestamp()
DeleteWhereExpired(d, t) ==
  IF ~d.table THEN [ok |-> FALSE, db |-> d]
  ELSE [ok |-> TRUE,
        db |-> [d EXCEPT !.rows = {r \in d.rows : ~(r.expiry_date < t)}]]

\* ---- results -----------------------------------------------------------
Result(tag, rec) == [tag |-> tag, rec |-> rec]

Ok == Result("Ok", NoRecord)
None == Result("None", NoRecord)
Some(r) == Result("Some", r)
ErrSqlx == Result("Err:Sqlx", NoRecord)
ErrEncode == Result("Err:Encode", NoRecord)
ErrDecode == Result("Err:Decode", NoRecord)

\* ---- the store's methods as functions of the database ------------------
\* Each yields [result, db]: what the caller gets and what the database is
\* afterwards.  fault names the point at which the pool fails the call:
\* "backend" before the statement runs (no connection, rejected statement),
\* "unacked" after it ran, when the acknowledgement does not reach the
\* caller (timeout, connection lost); execute() returns Err for both.

MigrateFaults == {"none", "begin", "schema", "table", "commit"}
Faults == {"none", "backend"}
AckFaults == {"unacked"}

migrate(d, fault) ==
  IF fault = "begin" THEN [result |-> ErrSqlx, db |-> d]
  ELSE IF fault = "schema" THEN [result |-> ErrSqlx, db |-> Rollback(d, d)]
  ELSE LET s == CreateSchema(d) IN
    IF ~s.ok THEN [result |-> ErrSqlx, db |-> Rollback(d, s.db)]
    ELSE IF fault = "table" THEN [result |-> ErrSqlx, db |-> Rollback(d, s.db)]
    ELSE LET t == CreateTable(s.db) IN
      IF ~t.ok THEN [result |-> ErrSqlx, db |-> Rollback(d, t.db)]
      ELSE IF fault = "commit" THEN [result |-> ErrSqlx, db |-> Rollback(d, t.db)]
      ELSE [result |-> Ok, db |-> t.db]

delete_expired(d, t, fault) ==
  IF fault = "backend" THEN [result |-> ErrSqlx, db |-> d]
  ELSE LET x == DeleteWhereExpired(d, t) IN
    IF ~x.ok THEN [result |-> ErrSqlx, db |-> d]
    ELSE IF fault = "unacked" THEN [result |-> ErrSqlx, db |-> x.db]
    ELSE [result |-> Ok, db |-> x.db]

\* Mutant of save: the statement goes to the pool before the record is
\* encoded.
saveExecutesFirst(d, record, fault) ==
  IF fault # "none" \/ ~d.table THEN [result |-> ErrSqlx, db |-> d]
  ELSE IF EncodeFails(record) THEN [result |-> ErrEncode, db |-> d]
  ELSE [result |-> Ok,
        db |-> Upsert(d, IdToString(record.id), Encode(record),
                      record.expiry_date).db]

\* Mutant of save: a failed statement is sent again and the error dropped.
saveRetries(d, record, fault) ==
  IF EncodeFails(record) THEN [result |-> ErrEncode, db |-> d]
  ELSE LET x == Upsert(d, IdToString(record.id), Encode(record),
                       record.expiry_date) IN
    IF ~x.ok THEN [result |-> ErrSqlx, db |-> d]
    ELSE [result |-> Ok, db |-> x.db]

save(d, record, fault) ==
  IF EncodeFails(record) THEN [result |-> ErrEncode, db |-> d]
  ELSE IF fault = "backend" THEN [result |-> ErrSqlx, db |-> d]
  ELSE LET x == Upsert(d, IdToString(record.id), Encode(record),
                       record.expiry_date) IN
    IF ~x.ok THEN [result |-> ErrSqlx, db |-> d]
    ELSE IF fault = "unacked" THEN [result |-> ErrSqlx, db |-> x.db]
    ELSE [result |-> Ok, db |-> x.db]

\* Mutant of load: an expired row of the id is deleted when it is read.
loadReaps(d, session_id, t, fault) ==
  IF fault # "none" THEN [result |-> ErrSqlx, db |-> d]
  ELSE LET q == SelectData(d, IdToString(session_id), t)
           kept == [d EXCEPT !.rows =
                      {r \in d.rows : ~(r.id = IdToString(session_id)
                                          /\ r.expiry_date <= t)}]
       IN
    IF ~q.ok THEN [result |-> ErrSqlx, db |-> d]
    ELSE IF q.out = {} THEN [result |-> None, db |-> kept]
    ELSE LET data == CHOOSE b \in q.out : TRUE IN
      IF Decode(data) = NoRecord THEN [result |-> ErrDecode, db |-> d]
      ELSE [result |-> Some(Decode(data)), db |-> d]

\* Mutant of load: a payload that does not decode is reported as no record.
loadDecodeAsNone(d, session_id, t, fault) ==
  IF fault # "none" THEN [result |-> ErrSqlx, db |-> d]
  ELSE LET q == SelectData(d, IdToString(session_id), t) IN
    IF ~q.ok THEN [result |-> ErrSqlx, db |-> d]
    ELSE IF q.out = {} THEN [result |-> None, db |-> d]
    ELSE LET data == CHOOSE b \in q.out : TRUE IN
      IF Decode(data) = NoRecord THEN [result |-> None, db |-> d]
      ELSE [result |-> Some(Decode(data)), db |-> d]

load(d, session_id, t, fault) ==
  IF fault # "none" THEN [result |-> ErrSqlx, db |-> d]
  ELSE LET q == SelectData(d, IdToString(session_id), t) IN
    IF ~q.ok THEN [result |-> ErrSqlx, db |-> d]
    ELSE IF q.out = {} THEN [result |-> None, db |-> d]
    ELSE LET data == CHOOSE b \in q.out : TRUE IN
      IF Decode(data) = NoRecord THEN [result |-> ErrDecode, db |-> d]
      ELSE [result |-> Some(Decode(data)), db |-> d]

\* Mutant of delete: a statement that matched no row is an error.
deleteMustMatch(d, session_id, fault) ==
  IF fault # "none" THEN [result |-> ErrSqlx, db |-> d]
  ELSE LET x == DeleteById(d, IdToString(session_id)) IN
    IF x.ok /\ x.db # d THEN [result |-> Ok, db |-> x.db]
    ELSE [result |-> ErrSqlx, db |-> d]

delete(d, session_id, fault) ==
  IF fault = "backend" THEN [result |-> ErrSqlx, db |-> d]
  ELSE LET x == DeleteById(d, IdToString(session_id)) IN
    IF ~x.ok THEN [result |-> ErrSqlx, db |-> d]
    ELSE IF fault = "unacked" THEN [result |-> ErrSqlx, db |-> x.db]
    ELSE [result |-> Ok, db |-> x.db]

\* ---- state -------------------------------------------------------------
VARIABLES
  db,      \* the database behind the pool: [schema, table, rows]
  now,     \* the application clock, OffsetDateTime::now_utc()
  dbNow,   \* the database clock, utc_timestamp()
  call,    \* the call made by the last step: [op, id, rec, fault, result]
  before,  \* the database as the last call found it
  last     \* per id: the last successful save, delete or purge of its row

vars == <<db, now, dbNow, call, before, last>>

Call(op, id, rec, fault, result) ==
  [op |-> op, id |-> id, rec |-> rec, fault |-> fault, result |-> result]

Idle == Call("none", 0, NoRecord, "none", Ok)

Last(state, rec) == [state |-> state, rec |-> rec]

Init ==
  /\ db = EmptyDb
  /\ now = 0
  /\ dbNow = 0
  /\ call = Idle
  /\ before = EmptyDb
  /\ last = [i \in Ids |-> Last("none", NoRecord)]

\* ---- actions -----------------------------------------------------------
Migrate ==
  \E fault \in MigrateFaults :
    LET m == migrate(db, fault) IN
      /\ db' = m.db
      /\ call' = Call("migrate", 0, NoRecord, fault, m.result)
      /\ before' = db
      /\ UNCHANGED <<now, dbNow, last>>

DeleteExpired ==
  \E fault \in Faults :
    LET m == delete_expired(db, dbNow, fault) IN
      /\ db' = m.db
      /\ call' = Call("delete_expired", 0, NoRecord, fault, m.result)
      /\ before' = db
      /\ last' = [i \in Ids |->
                   IF RowsOf(db, IdToString(i)) # {} /\ RowsOf(m.db, IdToString(i)) = {}
                     THEN Last("none", NoRecord)
                     ELSE last[i]]
      /\ UNCHANGED <<now, dbNow>>

Save ==
  \E record \in Records, fault \in Faults :
    LET m == save(db, record, fault) IN
      /\ db' = m.db
      /\ call' = Call("save", record.id, record, fault, m.result)
      /\ before' = db
      /\ last' = IF m.result = Ok
                   THEN [last EXCEPT ![record.id] = Last("saved", record)]
                   ELSE last
      /\ UNCHANGED <<now, dbNow>>

Load ==
  \E session_id \in Ids, fault \in Faults :
    LET m == load(db, session_id, now, fault) IN
      /\ db' = m.db
      /\ call' = Call("load", session_id, NoRecord, fault, m.result)
      /\ before' = db
      /\ UNCHANGED <<now, dbNow, last>>

Delete ==
  \E session_id \in Ids, fault \in Faults :
    LET m == delete(db, session_id, fault) IN
      /\ db' = m.db
      /\ call' = Call("delete", session_id, NoRecord, fault, m.result)
      /\ before' = db
      /\ last' = IF m.result = Ok
                   THEN [last EXCEPT ![session_id] = Last("deleted", NoRecord)]
                   ELSE last
      /\ UNCHANGED <<now, dbNow>>

\* The clocks advance on their own, at most MaxSkew apart.
TickApp ==
  /\ now < MaxTime
  /\ now + 1 - dbNow <= MaxSkew
  /\ now' = now + 1
  /\ call' = Idle
  /\ before' = db
  /\ UNCHANGED <<db, dbNow, last>>

TickDb ==
  /\ dbNow < MaxTime
  /\ dbNow + 1 - now <= MaxSkew
  /\ dbNow' = dbNow + 1
  /\ call' = Idle
  /\ before' = db
  /\ UNCHANGED <<db, now, last>>

Next ==
  \/ Migrate
  \/ DeleteExpired
  \/ Save
  \/ Load
  \/ Delete
  \/ TickApp
  \/ TickDb

Spec == Init /\ [][Next]_vars

\* ---- rows the store's codec did not write ------------------------------
\* The table is shared storage: a writer with another codec (or a damaged
\* blob) leaves a row whose data rmp_serde::from_slice rejects.  This is
\* the case load's map_err(SqlxStoreError::Decode) exists for.
ForeignWrite ==
  \E i \in Ids, b \in CorruptBlobs, e \in Times :
    /\ db.table
    /\ db' = Upsert(db, IdToString(i), b, e).db
    /\ call' = Call("foreign", i, NoRecord, "none", Ok)
    /\ before' = db
    /\ last' = [last EXCEPT ![i] = Last("foreign", NoRecord)]
    /\ UNCHANGED <<now, dbNow>>

NextForeign ==
  \/ Migrate
  \/ ForeignWrite
  \/ Save
  \/ Load
  \/ TickApp

SpecForeign == Init /\ [][NextForeign]_vars

\* ---- calls whose acknowledgement is lost -------------------------------
\* The statement ran, the caller gets the pool's error.  last follows what
\* was applied to the table.
SaveUnacked ==
  \E record \in Records, fault \in AckFaults :
    LET m == save(db, record, fault) IN
      /\ db' = m.db
      /\ call' = Call("save", record.id, record, fault, m.result)
      /\ before' = db
      /\ last' = IF m.result = ErrSqlx /\ db.table
                   THEN [last EXCEPT ![record.id] = Last("saved", record)]
                   ELSE last
      /\ UNCHANGED <<now, dbNow>>

DeleteUnacked ==
  \E session_id \in Ids, fault \in AckFaults :
    LET m == delete(db, session_id, fault) IN
      /\ db' = m.db
      /\ call' = Call("delete", session_id, NoRecord, fault, m.result)
      /\ before' = db
      /\ last' = IF db.table
                   THEN [last EXCEPT ![session_id] = Last("deleted", NoRecord)]
                   ELSE last
      /\ UNCHANGED <<now, dbNow>>

DeleteExpiredUnacked ==
  \E fault \in AckFaults :
    LET m == delete_expired(db, dbNow, fault) IN
      /\ db' = m.db
      /\ call' = Call("delete_expired", 0, NoRecord, fault, m.result)
      /\ before' = db
      /\ last' = [i \in Ids |->
                   IF RowsOf(db, IdToString(i)) # {} /\ RowsOf(m.db, IdToString(i)) = {}
                     THEN Last("none", NoRecord)
                     ELSE last[i]]
      /\ UNCHANGED <<now, dbNow>>

\* The application clock stands still here: no write reads it.
NextAck ==
  \/ Migrate
  \/ DeleteExpired
  \/ Save
  \/ Load
  \/ Delete
  \/ TickDb
  \/ SaveUnacked
  \/ DeleteUnacked
  \/ DeleteExpiredUnacked

SpecAck == Init /\ [][NextAck]_vars

\* ---- the janitor -------------------------------------------------------
\* An external scheduled task calls delete_expired again and again, and
\* its calls keep succeeding; the database clock keeps advancing.
Janitor == DeleteExpired /\ call'.fault = "none" /\ call'.result = Ok

\* The application clock stands still here: delete_expired does not read it.
NextJanitor ==
  \/ Migrate
  \/ DeleteExpired
  \/ Save
  \/ Delete
  \/ TickDb

SpecJanitor ==
  Init /\ [][NextJanitor]_vars /\ WF_vars(Janitor) /\ WF_vars(TickDb)

\* ---- typing ------------------------------------------------------------
TypeOK ==
  /\ db.schema \in BOOLEAN
  /\ db.table \in BOOLEAN
  /\ now \in Times
  /\ dbNow \in Times
  /\ \A r \in db.rows : r.expiry_date \in Times

\* ---- properties --------------------------------------------------------
\* The call of the last step ran against a provisioned table and the pool
\* did not fail it.
Ran(op) == call.op = op /\ call.fault = "none" /\ before.table

RowsFor(d, i) == RowsOf(d, IdToString(i))

\* Every blob a data column can hold: the encodings of records, and bytes
\* that decode to nothing.
Blobs == {Encode(r) : r \in {x \in Records : ~EncodeFails(x)}} \cup CorruptBlobs

\* C1: a load of an id made before the expiry_date of the record last saved
\* under it, with no delete and no purge of that row since the save,
\* returns Some of exactly that record: id, data and expiry_date unchanged.
RoundTrip ==
  (Ran("load") /\ last[call.id].state = "saved"
     /\ now < last[call.id].rec.expiry_date)
    => call.result = Some(last[call.id].rec)

WitnessRoundTrip ==
  /\ Ran("load")
  /\ last[call.id].state = "saved"
  /\ now < last[call.id].rec.expiry_date
  /\ call.result.tag = "Some"
  /\ call.result.rec.id = call.id
  /\ now > 0

\* C2: the table never holds two rows with one id, and a successful save
\* leaves exactly one row for its id, whose data and expiry_date are those
\* of this save, whatever row the id had before.
UpsertOneRow ==
  /\ \A r1, r2 \in db.rows : r1.id = r2.id => r1 = r2
  /\ (call.op = "save" /\ call.result = Ok)
       => RowsFor(db, call.id) =
            {Row(IdToString(call.id), Encode(call.rec), call.rec.expiry_date)}

WitnessUpsertOneRow ==
  /\ call.op = "save"
  /\ call.result = Ok
  /\ \E r \in RowsFor(before, call.id) :
       /\ Decode(r.data).data # call.rec.data
       /\ r.expiry_date # call.rec.expiry_date
  /\ Cardinality(RowsFor(db, call.id)) = 1

\* C3: a load of an id whose row has expiry_date at or before the
\* application clock returns None, and no load ever returns a record whose
\* expiry_date is at or before the clock.
ExpiryHides ==
  /\ (Ran("load") /\ \E r \in RowsFor(before, call.id) : r.expiry_date <= now)
       => call.result = None
  /\ (call.op = "load" /\ call.result.tag = "Some")
       => call.result.rec.expiry_date > now

WitnessExpiryHides ==
  /\ Ran("load")
  /\ \E r \in RowsFor(before, call.id) : r.expiry_date = now
  /\ call.result = None

\* C4: a load of an id whose row is expired returns what it returns on the
\* same table without that row, which is None and no error, and it does so
\* whatever blob the expired row holds, undecodable ones included.
MissingVsExpired ==
  Ran("load") =>
    \A r \in RowsFor(before, call.id) :
      r.expiry_date <= now =>
        LET rest == before.rows \ {r}
            missing == [before EXCEPT !.rows = rest]
        IN /\ call.result = load(missing, call.id, now, "none").result
           /\ call.result = None
           /\ \A b \in Blobs :
                load([before EXCEPT !.rows =
                        rest \cup {Row(r.id, b, r.expiry_date)}],
                     call.id, now, "none").result = None

WitnessMissingVsExpired ==
  /\ Ran("load")
  /\ \E r \in RowsFor(before, call.id) : r.expiry_date < now
  /\ call.result = None
  /\ before.rows # {}
  /\ db = before

\* C5: after a successful delete_expired every row whose expiry_date was in
\* the past is gone and a load of its id returns None, and every row whose
\* expiry_date is in the future is still there, unchanged, and a load of
\* its id returns Some of the record it holds.  Past and future are taken
\* on both clocks: before both, after both.
InThePast(t) == t < now /\ t < dbNow

InTheFuture(t) == t > now /\ t > dbNow

PurgeBoundary ==
  (call.op = "delete_expired" /\ call.result = Ok)
    => \A r \in db.rows : ~(r.expiry_date <= dbNow)

\* C7: whatever the outcome of migrate, either the schema and the table
\* both exist afterwards or neither was created by it.
MigrateAtomic ==
  call.op = "migrate" =>
    \/ db.schema /\ db.table
    \/ db.schema = before.schema /\ db.table = before.table

\* C8: a migrate that finds the schema and the table in place and is not
\* failed by the pool succeeds and leaves the schema, the table and every
\* row as they were; no migrate changes a row.
MigrateIdempotent ==
  /\ (call.op = "migrate" /\ call.fault = "none"
        /\ before.schema /\ before.table)
       => (call.result = Ok /\ db = before)
  /\ call.op = "migrate" => db.rows = before.rows

WitnessMigrateIdempotent ==
  /\ call.op = "migrate"
  /\ call.result = Ok
  /\ before.schema
  /\ before.table
  /\ before.rows # {}
  /\ db = before

\* C9: a delete of an id that has no row succeeds and leaves the table as
\* it was, and so does a delete of an id that follows a successful delete
\* of the same id.
DeleteIdempotent ==
  /\ [](((Ran("delete") /\ RowsFor(before, call.id) = {})
          => (call.result = Ok /\ db = before)))
  /\ [][(call.op = "delete" /\ call.result = Ok
           /\ call'.op = "delete" /\ call'.id = call.id
           /\ call'.fault = "none")
          => (call'.result = Ok /\ db' = db)]_vars

WitnessDeleteIdempotent ==
  /\ Ran("delete")
  /\ RowsFor(before, call.id) = {}
  /\ last[call.id].state = "deleted"
  /\ call.result = Ok
  /\ db = before
  /\ db.rows # {}

\* C10: a successful delete removes the row of its id, expired or not, and
\* leaves every other row as it was; from then until the next save of that
\* id the id has no row and every load of it returns None.
DeleteLocal ==
  /\ (call.op = "delete" /\ call.result = Ok)
       => db.rows = {r \in before.rows : r.id # IdToString(call.id)}
  /\ \A i \in Ids : last[i].state = "deleted" =>
       /\ RowsFor(db, i) = {}
       /\ load(db, i, now, "none").result = None
  /\ (Ran("load") /\ last[call.id].state = "deleted") => call.result = None

WitnessDeleteLocal ==
  /\ call.op = "delete"
  /\ call.result = Ok
  /\ \E r \in RowsFor(before, call.id) : InTheFuture(r.expiry_date)
  /\ RowsFor(db, call.id) = {}
  /\ db.rows # {}

\* The row a successful save of rec leaves: the three values it binds.
RowOf(rec) == Row(IdToString(rec.id), Encode(rec), rec.expiry_date)

\* C11: statements of concurrent callers interleave one whole statement at
\* a time.  Whatever the interleaving of saves and loads, a load that
\* returns a record returns, in full, the record of the save applied last
\* to its id, read from a row whose data and expiry_date are both that
\* save's; and while that save is the last statement applied to the id, the
\* id's single row is that record's row; a load right after a save of its
\* id sees that save and nothing of an earlier one.
LastWriterWins ==
  /\ []((call.op = "load" /\ call.result.tag = "Some") =>
          /\ last[call.id].state = "saved"
          /\ call.result.rec = last[call.id].rec
          /\ RowsFor(before, call.id) = {RowOf(call.result.rec)})
  /\ [](\A i \in Ids : last[i].state = "saved" =>
          RowsFor(db, i) = {RowOf(last[i].rec)})
  /\ [][(call.op = "save" /\ call.result = Ok /\ call'.op = "load"
           /\ call'.id = call.id /\ call'.result.tag = "Some")
          => call'.result.rec = call.rec]_vars

WitnessLastWriterWins ==
  /\ call.op = "load"
  /\ call.result.tag = "Some"
  /\ call.result.rec = last[call.id].rec
  /\ call.result.rec.data = "p2"
  /\ \E i \in Ids : i # call.id /\ last[i].state = "saved"
  /\ Cardinality(db.rows) = 2

\* C12: a purge and a save of one id, applied in either order, leave the id
\* with the saved record's row in full or with no row; the row is never the
\* old one nor a mix.  Purge first: the save's row is there.  Save first:
\* the purge keeps the row or removes it, and keeps it when its expiry_date
\* is in the future on both clocks.  In every state an id has no row or the
\* row of the save applied last to it.
PurgeSaveRace ==
  /\ [](\A i \in Ids :
          \/ RowsFor(db, i) = {}
          \/ last[i].state = "saved" /\ RowsFor(db, i) = {RowOf(last[i].rec)})
  /\ [][(call.op = "delete_expired" /\ call.result = Ok
           /\ call'.op = "save" /\ call'.result = Ok)
          => RowsFor(db', call'.id) = {RowOf(call'.rec)}]_vars
  /\ [][(call.op = "save" /\ call.result = Ok
           /\ call'.op = "delete_expired" /\ call'.result = Ok)
          => /\ RowsFor(db', call.id) \in {{}, {RowOf(call.rec)}}
             /\ (call.rec.expiry_date > now /\ call.rec.expiry_date > dbNow)
                  => RowsFor(db', call.id) = {RowOf(call.rec)}]_vars

WitnessPurgeSaveRace ==
  /\ call.op = "delete_expired"
  /\ call.result = Ok
  /\ \E r \in before.rows : r \notin db.rows
  /\ \E i \in Ids :
       /\ last[i].state = "saved"
       /\ last[i].rec.expiry_date > now
       /\ RowsFor(db, i) = {RowOf(last[i].rec)}
       /\ RowsFor(before, i) = RowsFor(db, i)

\* C13: a save of a record that cannot be encoded returns the encode error
\* and leaves the database as it was, the row of the same id included; no
\* statement reaches the pool: the outcome is the same when the pool would
\* have failed the statement and when the table is missing.
EncodeFailureNoEffect ==
  (call.op = "save" /\ EncodeFails(call.rec)) =>
    /\ call.result = ErrEncode
    /\ db = before

WitnessEncodeFailureNoEffect ==
  /\ call.op = "save"
  /\ EncodeFails(call.rec)
  /\ call.fault = "backend"
  /\ call.result = ErrEncode
  /\ RowsFor(before, call.id) # {}
  /\ db = before

\* C16: a load changes no row, whatever it returns, and a row that is
\* expired leaves the table only by a delete of its id, a save of its id or
\* a delete_expired.
LoadReadOnly ==
  /\ [](call.op = "load" => db = before)
  /\ [][\A r \in db.rows :
          (r.expiry_date <= now /\ r \notin db'.rows) =>
            \/ call'.op = "delete_expired"
            \/ call'.op \in {"save", "delete"} /\ IdToString(call'.id) = r.id]_vars

WitnessLoadReadOnly ==
  /\ Ran("load")
  /\ call.result = None
  /\ \E r \in RowsFor(db, call.id) : r.expiry_date <= now /\ r.expiry_date < dbNow
  /\ db = before

\* C17: delete_expired never deletes a row that a load of its id at the
\* same instant returns, whatever the skew between the application clock
\* and the database clock.
LoadPurgeAgree ==
  (call.op = "delete_expired" /\ call.result = Ok) =>
    \A i \in Ids :
      (RowsFor(before, i) # {} /\ RowsFor(db, i) = {})
        => load(before, i, now, "none").result.tag # "Some"

\* C18: every row is the row of one record: its id column is the text of
\* the id in its payload and its expiry_date column is the expiry_date in
\* its payload; a record that load returns has the id that was asked for
\* and the expiry_date of the row the statement selected.
RowSelfConsistent ==
  /\ \A r \in db.rows :
       /\ Decode(r.data) # NoRecord
       /\ r.id = IdToString(Decode(r.data).id)
       /\ r.expiry_date = Decode(r.data).expiry_date
  /\ (call.op = "load" /\ call.result.tag = "Some") =>
       /\ call.result.rec.id = call.id
       /\ \E r \in RowsFor(before, call.id) :
            /\ r.expiry_date > now
            /\ r.expiry_date = call.result.rec.expiry_date

WitnessRowSelfConsistent ==
  /\ call.op = "load"
  /\ call.result.tag = "Some"
  /\ call.result.rec.id = call.id
  /\ call.result.rec.expiry_date = now + 1
  /\ \E r \in db.rows : r.id # IdToString(call.id) /\ r.expiry_date <= now

\* C20 as stated: while the table is absent, save, load, delete and
\* delete_expired each return the backend error, and only migrate creates
\* the schema or the table.
StoreOps == {"save", "load", "delete", "delete_expired"}

OnlyMigrateProvisions ==
  [][(db'.schema # db.schema \/ db'.table # db.table)
       => call'.op = "migrate"]_vars

MigrateFirstBackendError ==
  /\ []((call.op \in StoreOps /\ ~before.table) => call.result = ErrSqlx)
  /\ OnlyMigrateProvisions

\* C20, amended: while the table is absent, save, load, delete and
\* delete_expired each return an error, never success and never None: the
\* backend error, except that a save of a record that cannot be encoded
\* returns the encode error; none of them creates the schema or the table,
\* only migrate does.
MigrateFirst ==
  /\ []((call.op \in StoreOps /\ ~before.table) =>
          /\ call.result =
               IF call.op = "save" /\ EncodeFails(call.rec) THEN ErrEncode
               ELSE ErrSqlx
          /\ db = before)
  /\ OnlyMigrateProvisions

WitnessMigrateFirst ==
  /\ call.op = "load"
  /\ call.fault = "none"
  /\ before.schema
  /\ ~before.table
  /\ call.result = ErrSqlx
  /\ db = before

\* C14 as stated: whenever the row of the id is present and its payload
\* does not decode, load returns the decode error and never None; None is
\* returned only for a missing or an expired row.
Undecodable(r) == Decode(r.data) = NoRecord

DecodeFailureNotAbsence ==
  /\ (Ran("load") /\ \E r \in RowsFor(before, call.id) : Undecodable(r))
       => call.result = ErrDecode
  /\ (call.op = "load" /\ call.result = None)
       => \A r \in RowsFor(before, call.id) : r.expiry_date <= now

\* C14, amended: whenever the row of the id is present, not expired, and
\* its payload does not decode, load returns the decode error and never
\* None; None is returned only for a missing or an expired row, and an
\* expired row yields None even when its payload does not decode.
DecodeFailureOfLiveRow ==
  /\ (Ran("load") /\ \E r \in RowsFor(before, call.id) :
                       Undecodable(r) /\ r.expiry_date > now)
       => call.result = ErrDecode
  /\ (Ran("load") /\ \E r \in RowsFor(before, call.id) :
                       Undecodable(r) /\ r.expiry_date <= now)
       => call.result = None
  /\ (call.op = "load" /\ call.result = None)
       => \A r \in RowsFor(before, call.id) : r.expiry_date <= now

WitnessDecodeFailureOfLiveRow ==
  /\ Ran("load")
  /\ \E r \in RowsFor(before, call.id) : Undecodable(r) /\ r.expiry_date > now
  /\ call.result = ErrDecode
  /\ \E r \in db.rows : ~Undecodable(r)

\* C15 as stated: a save, delete or delete_expired that returns the backend
\* error leaves the database exactly as the call found it.
WriteOps == {"save", "delete", "delete_expired"}

BackendFailureNoEffect ==
  (call.op \in WriteOps /\ call.result = ErrSqlx) => db = before

\* What the call of the last step leaves when its statement runs.
Applied ==
  IF call.op = "save" THEN save(before, call.rec, "none").db
  ELSE IF call.op = "delete" THEN delete(before, call.id, "none").db
  ELSE delete_expired(before, dbNow, "none").db

\* C15, amended: a save, delete or delete_expired that returns the backend
\* error leaves the database either exactly as the call found it (the
\* statement was rejected or the table is missing) or exactly as the same
\* call leaves it on success (the statement ran and its acknowledgement was
\* lost), never anything else; a failure of the pool is returned as the
\* error, with no retry; and the call after a rejected one returns what it
\* returns on the database the rejected call found.
BackendFailureAllOrNothing ==
  /\ []((call.op \in WriteOps /\ call.result = ErrSqlx) =>
          /\ call.fault = "backend" => db = before
          /\ call.fault = "none" => (db = before /\ ~before.table)
          /\ call.fault = "unacked" => db = Applied)
  /\ []((call.op \in WriteOps /\ call.fault # "none") =>
          call.result = IF call.op = "save" /\ EncodeFails(call.rec)
                          THEN ErrEncode ELSE ErrSqlx)
  /\ [][(call.op \in WriteOps /\ call.fault = "backend") =>
          /\ (call'.op = "delete_expired" /\ call'.fault = "none")
               => db' = delete_expired(before, dbNow, "none").db
          /\ (call'.op = "load" /\ call'.fault = "none")
               => call'.result = load(before, call'.id, now, "none").result
          /\ (call'.op = "save" /\ call'.fault = "none")
               => db' = save(before, call'.rec, "none").db]_vars

WitnessBackendFailureAllOrNothing ==
  /\ call.op = "delete_expired"
  /\ call.fault = "backend"
  /\ call.result = ErrSqlx
  /\ \E r \in before.rows : r.expiry_date < dbNow
  /\ \E i \in Ids : last[i].state = "saved" /\ RowsFor(db, i) = {RowOf(last[i].rec)}
  /\ db = before

\* C19: with a janitor that keeps calling delete_expired successfully and a
\* database clock that keeps advancing, a row whose expiry_date has been
\* passed on the database clock, the one delete_expired reads, does not
\* stay: eventually the id has no row, or has the row of a later save that
\* is not past its expiry_date.
Passed(i) == \E r \in RowsFor(db, i) : r.expiry_date < dbNow

ExpiredEventuallyRemoved == \A i \in Ids : Passed(i) ~> ~Passed(i)

WitnessExpiredEventuallyRemoved ==
  /\ call.op = "delete_expired"
  /\ call.result = Ok
  /\ Cardinality(before.rows) = 2
  /\ \A r \in before.rows : r.expiry_date < dbNow
  /\ db.rows = {}

====
